---- MODULE Spec2Model ----
(***************************************************************************)
(* Multi-Modal Video RAG: the query retriever (src/src/retriever.py), the  *)
(* caption extraction (src/src/video_processor.py) and the Streamlit       *)
(* session that owns them (src/src/app.py).                                *)
(*                                                                         *)
(* Four specifications share the module:                                   *)
(*   SpecRetriever  the class VideoRetriever driven directly by a caller:  *)
(*                  construction with any K values, retrieve with any      *)
(*                  query, over any store contents;                        *)
(*   SpecCaptions   VideoProcessor.extract_captions called directly, the   *)
(*                  transcript fetch ending in any way;                    *)
(*   Spec           the application: one browser session whose script runs *)
(*                  are Cleanup All Data, Process Video, Submit Query and  *)
(*                  a slider move, over the data directory on disk;        *)
(*   SpecSessions   the handlers step by step, for two browser sessions    *)
(*                  whose script threads interleave over the one disk.     *)
(***************************************************************************)
EXTENDS Integers, Sequences, FiniteSets, TLC

\* ------------------------------------------------------------- bounds
MaxStore == 3          \* entries in a store driven directly
MaxK == 2              \* largest top-K value tried
MaxBuilds == 2         \* indexes built in one session

\* ------------------------------------------------------------ values
\* Python's None, for objects and for strings.
None == [none |-> TRUE]
NoneStr == "None"

\* The queries typed: sequences of characters, " " the whitespace character.
Whitespace == {" "}
Queries == {<<>>, <<" ">>, <<"a">>, <<" ", "a">>}
\* The queries a direct caller passes: the empty one and one that is not blank.
DirectQueries == {<<>>, <<"a">>}

ScoreValues == 1..2

\* The entries a store can hold.  kind "image" is an ImageNode, kind "text" a
\* text node, kind "other" an entry that is neither variant; hasText tells
\* whether reading the entry's text succeeds (it does for every text node).
EntryShapes ==
    [kind : {"image", "text"}, score : ScoreValues, hasText : {TRUE}]
        \cup [kind : {"other"}, score : {1}, hasText : BOOLEAN]

Stores == UNION {[1..n -> EntryShapes] : n \in 0..MaxStore}

\* The top-K values a direct caller may pass, valid or not.
KValues == 0..MaxK

VARIABLES
    retr,        \* the VideoRetriever driven directly, or None
    ctor,        \* the most recent direct construction and how it ended
    call,        \* the retrieve call of the most recent step, or NoCall
    remembered,  \* some earlier normal return of retrieve on the same retriever
    session,     \* st.session_state: video_url, index, retriever, video_id
    lifecycle,   \* the most recent Cleanup or Process Video run and where it raised
    page,        \* what the most recent script run rendered
    builds,      \* indexes built so far in the session
    capt,        \* the most recent direct extract_captions call, or NoCall
    data_dir,    \* config["data_dir"] on disk: the frame files
    sliders,     \* the two top-K sliders of the sidebar
    sessions,    \* of each browser session: the index its session state holds
    threads      \* of each browser session: where its script run stands

vars == <<retr, ctor, call, remembered, session, lifecycle, page, builds, capt,
          data_dir, sliders, sessions, threads>>

NoCall == [made |-> FALSE]
NoCtor == [made |-> FALSE]

\* ------------------------------------------------- the evidence store
\* Evidence Store search (spec 4.1): K clamped to [1, store size].
Clamp(k, n) == IF k > n THEN n ELSE IF k < 1 THEN 1 ELSE k

\* Entry i ranks before entry j: higher score first, ties by insertion order.
RanksBefore(items, i, j) ==
    \/ items[i].score > items[j].score
    \/ items[i].score = items[j].score /\ i < j

\* The two collections of the store: image entries, and everything else.
SameCollection(items, i, j) ==
    (items[i].kind = "image") = (items[j].kind = "image")

\* The store's answer: entries in rank order, at most text_k from the text
\* collection and at most image_k from the image collection.
Search(items, text_k, image_k) ==
    LET n == Len(items)
        rank(i) == 1 + Cardinality({j \in 1..n : RanksBefore(items, j, i)})
        inColl(i) == 1 + Cardinality({j \in 1..n :
                         SameCollection(items, i, j) /\ RanksBefore(items, j, i)})
        budget(i) == IF items[i].kind = "image" THEN Clamp(image_k, n)
                                                ELSE Clamp(text_k, n)
        ordered == [r \in 1..n |-> CHOOSE i \in 1..n : rank(i) = r]
        node(i) == [pos |-> i, kind |-> items[i].kind, score |-> items[i].score,
                    hasText |-> items[i].hasText]
        all == [r \in 1..n |-> node(ordered[r])]
    IN  SelectSeq(all, LAMBDA nd : inColl(nd.pos) <= budget(nd.pos))

\* ------------------------------------------------------ VideoRetriever
\* isinstance(res_node.node, ImageNode)
IsImageNode(res_node) == res_node.kind = "image"

\* Path(res_node.node.metadata["file_path"]): the frame file of the entry.
FilePath(res_node) == <<"file_path", res_node.pos>>

\* res_node.text: the text of the entry.
NodeText(res_node) == <<"text", res_node.pos>>

\* index.as_retriever(similarity_top_k=..., image_similarity_top_k=...): the
\* engine keeps the two K values; the call may raise.
AsRetriever(index, similarity_top_k, image_similarity_top_k, raises) ==
    IF raises
    THEN [raised |-> TRUE, exc |-> "AsRetrieverError"]
    ELSE [raised |-> FALSE,
          engine |-> [similarity_top_k |-> similarity_top_k,
                      image_similarity_top_k |-> image_similarity_top_k]]

\* VideoRetriever.__init__: no check of its own on the K values; whatever
\* as_retriever raises propagates and no object comes to exist.
VideoRetriever(index, similarity_top_k, image_similarity_top_k, raises) ==
    LET made == AsRetriever(index, similarity_top_k, image_similarity_top_k, raises)
    IN  IF made.raised
        THEN [raised |-> TRUE, exc |-> made.exc]
        ELSE [raised |-> FALSE,
              self |-> [index |-> index, retriever_engine |-> made.engine]]

\* The search taking its K values from the sliders at the time of the call.
EngineRetrieveSliders(self, query_str, fails) ==
    IF fails
    THEN [raised |-> TRUE, exc |-> "BackendFailure"]
    ELSE [raised |-> FALSE,
          nodes |-> Search(self.index.items,
                           sliders.similarity_top_k,
                           sliders.image_similarity_top_k)]

\* self.retriever_engine.retrieve(query_str): the similarity search.  It may
\* fail (backend unavailable); otherwise it answers from the store's contents.
EngineRetrieve(self, query_str, fails) ==
    IF fails
    THEN [raised |-> TRUE, exc |-> "BackendFailure"]
    ELSE [raised |-> FALSE,
          nodes |-> Search(self.index.items,
                           self.retriever_engine.similarity_top_k,
                           self.retriever_engine.image_similarity_top_k)]

\* A list pair carried over from the call before (lists kept on the object).
KeptLists(self) ==
    IF call.made /\ call.outcome = "returned"
    THEN [images |-> call.images, texts |-> call.texts]
    ELSE [images |-> <<>>, texts |-> <<>>]

\* retrieved_images = []; retrieved_texts = []
NewLists(self) == [images |-> <<>>, texts |-> <<>>]

\* The loop body with the image branch also falling through to the text one.
ClassifyBoth(res_node, lists) ==
    IF IsImageNode(res_node)
    THEN [images |-> Append(lists.images, FilePath(res_node)),
          texts |-> Append(lists.texts, NodeText(res_node))]
    ELSE [lists EXCEPT !.texts = Append(@, NodeText(res_node))]

\* The loop body inserting at the front of each list.
ClassifyFront(res_node, lists) ==
    IF IsImageNode(res_node)
    THEN [lists EXCEPT !.images = <<FilePath(res_node)>> \o @]
    ELSE [lists EXCEPT !.texts = <<NodeText(res_node)>> \o @]

\* The loop body with the else branch narrowed to text nodes, others skipped.
ClassifySkip(res_node, lists) ==
    IF IsImageNode(res_node)
    THEN [lists EXCEPT !.images = Append(@, FilePath(res_node))]
    ELSE IF res_node.kind = "text"
         THEN [lists EXCEPT !.texts = Append(@, NodeText(res_node))]
         ELSE lists

\* The loop body: an ImageNode's path goes to the images, anything else has
\* its text appended to the texts.
Classify(res_node, lists) ==
    IF IsImageNode(res_node)
    THEN [lists EXCEPT !.images = Append(@, FilePath(res_node))]
    ELSE [lists EXCEPT !.texts = Append(@, NodeText(res_node))]

\* for res_node in retrieval_results: ...  Reading the text of an entry that
\* has none raises, and the loop ends there.
RECURSIVE Partition(_, _, _)
Partition(nodes, i, lists) ==
    IF i > Len(nodes)
    THEN [raised |-> FALSE, images |-> lists.images, texts |-> lists.texts]
    ELSE IF ~IsImageNode(nodes[i]) /\ ~nodes[i].hasText
         THEN [raised |-> TRUE, exc |-> "ValueError"]
         ELSE Partition(nodes, i + 1, Classify(nodes[i], lists))

\* VideoRetriever.retrieve: search, partition, return; any exception is
\* logged and re-raised as it is.
retrieve(self, query_str, fails) ==
    LET retrieval_results == EngineRetrieve(self, query_str, fails)
    IN  IF retrieval_results.raised
        THEN [made |-> TRUE, query |-> query_str, searched |-> TRUE,
              engineRaised |-> TRUE, nodes |-> <<>>,
              outcome |-> "raised", exc |-> retrieval_results.exc,
              images |-> <<>>, texts |-> <<>>]
        ELSE LET parts == Partition(retrieval_results.nodes, 1, NewLists(self))
             IN  IF parts.raised
                 THEN [made |-> TRUE, query |-> query_str, searched |-> TRUE,
                       engineRaised |-> FALSE, nodes |-> retrieval_results.nodes,
                       outcome |-> "raised", exc |-> parts.exc,
                       images |-> <<>>, texts |-> <<>>]
                 ELSE [made |-> TRUE, query |-> query_str, searched |-> TRUE,
                       engineRaised |-> FALSE, nodes |-> retrieval_results.nodes,
                       outcome |-> "returned", exc |-> NoneStr,
                       images |-> parts.images, texts |-> parts.texts]

\* --------------------------------------- the retriever driven directly
NoSession == [video_url |-> None, index |-> None, retriever |-> None,
              video_id |-> NoneStr]
NoLifecycle == [kind |-> "none", raisedAt |-> "none", before |-> NoSession]
NoPage == [kind |-> "none", ui |-> "none", exc |-> NoneStr]

Videos == {"A", "B"}

\* The sliders' range.
SliderMin == 1
SliderMax == 10
SliderValues == SliderMin..(IF SliderMax < MaxK THEN SliderMax ELSE MaxK)

\* The sliders' value on the first run of a session.
SliderDefault == 5
FirstSliders ==
    LET value == IF SliderDefault \in SliderValues THEN SliderDefault ELSE MaxK
    IN  [similarity_top_k |-> value, image_similarity_top_k |-> value]

\* The frame files frame0000.png, frame0001.png, ... of the data directory,
\* by number, each with the video it was cut from.  The caption file of a
\* video is written anew by every run before it is read and is not kept here.
MaxFrames == 2
FrameSlots == 0..(MaxFrames - 1)
EmptyDir == [frames |-> [slot \in FrameSlots |-> NoneStr]]

\* The browser sessions of the one server process; each runs its script in
\* a thread of its own, all over the same data directory.
SessionIds == {"s1", "s2"}
Idle == [pc |-> "idle", video |-> NoneStr, over |-> {}]

Init ==
    /\ retr = None
    /\ ctor = NoCtor
    /\ call = NoCall
    /\ remembered = None
    /\ session = NoSession
    /\ lifecycle = NoLifecycle
    /\ page = NoPage
    /\ builds = 0
    /\ capt = NoCall
    /\ data_dir = EmptyDir
    /\ sliders = FirstSliders
    /\ sessions = [s \in SessionIds |-> [index |-> None]]
    /\ threads = [s \in SessionIds |-> Idle]

AppVars == <<session, lifecycle, page, builds, data_dir, sliders>>

\* A caller constructs VideoRetriever(index, text_k, image_k) over a store,
\* once in a run.
Construct ==
    /\ ~ctor.made
    /\ \E items \in Stores, text_k \in KValues, image_k \in KValues, raises \in BOOLEAN :
           LET index == [id |-> 0, video |-> NoneStr, items |-> items]
               made == VideoRetriever(index, text_k, image_k, raises)
           IN  /\ ctor' = [made |-> TRUE, text_k |-> text_k, image_k |-> image_k,
                           outcome |-> IF made.raised THEN "raised" ELSE "constructed",
                           exc |-> IF made.raised THEN made.exc ELSE NoneStr]
               /\ retr' = IF made.raised THEN None ELSE made.self
               /\ call' = NoCall
               /\ remembered' = None
               /\ UNCHANGED AppVars
               /\ UNCHANGED <<capt, sessions, threads>>

\* A caller calls retr.retrieve(query).
DirectRetrieve ==
    /\ retr # None
    /\ \E query \in DirectQueries, fails \in BOOLEAN :
           call' = retrieve(retr, query, fails)
    /\ remembered' \in {remembered} \cup
           (IF call.made /\ call.outcome = "returned"
            THEN {[query |-> call.query, images |-> call.images, texts |-> call.texts]}
            ELSE {})
    /\ UNCHANGED <<retr, ctor>>
    /\ UNCHANGED AppVars
    /\ UNCHANGED <<capt, sessions, threads>>

NextRetriever == Construct \/ DirectRetrieve

SpecRetriever == Init /\ [][NextRetriever]_vars

\* ------------------------------------------- VideoProcessor: captions
\* A "start" or "duration" of a transcript entry: absent, a number (in
\* thousandths of a second), or a value float() cannot convert.
TimeFields == {[given |-> "missing"], [given |-> "bad"]}
                  \cup [given : {"num"}, ms : {-1004, 0, 1004}]

\* The text of a transcript entry: characters, " " the whitespace character.
EntryTexts == {<<>>, <<" ">>, <<" ", "h">>}

TranscriptEntries == [start : TimeFields, duration : TimeFields, text : EntryTexts]

\* The transcripts a fetch can deliver: up to MaxEntries entries.
MaxEntries == 2
Transcripts == UNION {[1..n -> TranscriptEntries] : n \in 0..MaxEntries}

\* How the transcript API ends: with data, or with one of its exceptions.
ApiOutcomes == {"data", "TranscriptsDisabled", "NoTranscriptFound", "Exception"}
Languages == {NoneStr, "de"}

\* float(entry.get(key, 0))
FloatOf(field) ==
    IF field.given = "bad" THEN [raised |-> TRUE]
    ELSE [raised |-> FALSE, ms |-> IF field.given = "missing" THEN 0 ELSE field.ms]

\* f"{x:.2f}": thousandths rounded to the nearest hundredth.
Format2f(ms) == (ms + 5) \div 10

\* str.strip(): leading and trailing whitespace removed.
RECURSIVE Strip(_)
Strip(text) ==
    IF Len(text) = 0 THEN text
    ELSE IF Head(text) \in Whitespace THEN Strip(Tail(text))
    ELSE IF text[Len(text)] \in Whitespace THEN Strip(SubSeq(text, 1, Len(text) - 1))
    ELSE text

\* _fetch_original_captions: TranscriptsDisabled and any other exception are
\* re-raised, NoTranscriptFound becomes an empty list.
FetchOriginalCaptions(api, data) ==
    IF api = "data" THEN [raised |-> FALSE, srt_data |-> data]
    ELSE IF api = "NoTranscriptFound" THEN [raised |-> FALSE, srt_data |-> <<>>]
    ELSE [raised |-> TRUE, exc |-> api]

\* _fetch_and_translate_captions: every failure becomes an empty list.
FetchAndTranslateCaptions(api, data) ==
    IF api = "data" THEN [raised |-> FALSE, srt_data |-> data]
    ELSE [raised |-> FALSE, srt_data |-> <<>>]

\* The caption line of one entry, or nothing: an entry whose numbers cannot
\* be converted is skipped with a warning, one whose text is empty is left out.
CaptionLine(entry) ==
    LET start == FloatOf(entry.start)
        duration == FloatOf(entry.duration)
        text == Strip(entry.text)
    IN  IF start.raised \/ duration.raised THEN <<>>
        ELSE IF Len(text) = 0 THEN <<>>
        ELSE <<[start |-> Format2f(start.ms),
                end |-> Format2f(start.ms + duration.ms),
                text |-> text]>>

\* caption_text after the loop over srt_data.
RECURSIVE CaptionText(_)
CaptionText(srt_data) ==
    IF Len(srt_data) = 0 THEN <<>>
    ELSE CaptionLine(Head(srt_data)) \o CaptionText(Tail(srt_data))

\* An except block of extract_captions that lets the exception out.
FetchFailureRaised(exc) ==
    IF exc = "Exception"
    THEN [raised |-> TRUE, exc |-> exc]
    ELSE [raised |-> FALSE, written |-> TRUE, lines |-> <<>>]

\* The three except blocks of extract_captions: each logs and writes an
\* empty caption file.
FetchFailure(exc) == [raised |-> FALSE, written |-> TRUE, lines |-> <<>>]

\* caption_file: captions_<video_id>.txt, or captions_<video_id>_<lang>.txt.
CaptionFile(video_id, target_language) == <<"captions", video_id, target_language>>

\* VideoProcessor.extract_captions: fetch, convert, write; the path of the
\* caption file is returned on every path.
ExtractCaptions(video_id, target_language, api, data) ==
    LET fetched == IF target_language # NoneStr
                   THEN FetchAndTranslateCaptions(api, data)
                   ELSE FetchOriginalCaptions(api, data)
        done == IF fetched.raised THEN FetchFailure(fetched.exc)
                ELSE [raised |-> FALSE, written |-> TRUE,
                      lines |-> CaptionText(fetched.srt_data)]
    IN  IF done.raised
        THEN [made |-> TRUE, raised |-> TRUE, exc |-> done.exc, api |-> api,
              data |-> data, returned |-> NoneStr, file |-> CaptionFile(video_id, target_language),
              written |-> FALSE, lines |-> <<>>]
        ELSE [made |-> TRUE, raised |-> FALSE, exc |-> NoneStr, api |-> api,
              data |-> data, returned |-> CaptionFile(video_id, target_language),
              file |-> CaptionFile(video_id, target_language),
              written |-> done.written, lines |-> done.lines]

\* A caller calls extract_captions on a processor of some video, the
\* transcript API ending in any way with any transcript.
DirectExtractCaptions ==
    /\ ~capt.made
    /\ \E video_id \in {"A"}, target_language \in Languages,
          api \in ApiOutcomes, data \in Transcripts :
           /\ api # "data" => data = <<>>
           /\ capt' = ExtractCaptions(video_id, target_language, api, data)
    /\ UNCHANGED <<retr, ctor, call, remembered>>
    /\ UNCHANGED AppVars
    /\ UNCHANGED <<sessions, threads>>

NextCaptions == DirectExtractCaptions

SpecCaptions == Init /\ [][NextCaptions]_vars

\* ------------------------------------------------ the application session
\* The text typed into "Enter YouTube URL:": a watch URL of a video, a text
\* that is no YouTube URL, or nothing.
Urls == [form : {"watch"}, video : Videos]
            \cup {[form |-> "invalid", video |-> NoneStr],
                  [form |-> "empty", video |-> NoneStr]}

\* VideoProcessor._extract_video_id: the id out of a URL of a known form,
\* ValueError for anything else.
ExtractVideoId(url) ==
    IF url.form = "watch"
    THEN [raised |-> FALSE, video_id |-> url.video]
    ELSE [raised |-> TRUE, exc |-> "ValueError"]

\* The frames a video yields at the configured interval, and its transcript.
FrameCount(video) == IF video = "A" THEN MaxFrames ELSE 1
Transcript(video) ==
    LET entry(ms) == [start |-> [given |-> "num", ms |-> ms],
                      duration |-> [given |-> "num", ms |-> 1004],
                      text |-> <<" ", "h">>]
    IN  IF video = "A" THEN <<entry(0), entry(1004)>> ELSE <<entry(0)>>

\* VideoProcessor.extract_frames: the directory is created if missing and
\* never emptied; the frames saved are written as frame0000, frame0001, ...
\* over whatever carries those names, every other file staying.  A call
\* that raises does so on opening the stream, before any frame is written.
ExtractFrames(frames, video_id, saved) ==
    [slot \in FrameSlots |-> IF slot < saved THEN video_id ELSE frames[slot]]

\* The similarity of an entry to a query: an opaque number per entry.
TextScore(i) == IF i % 2 = 1 THEN 2 ELSE 1
ImageScore(slot) == IF slot % 2 = 1 THEN 2 ELSE 1

\* One text entry per caption span of the caption file.
TextEntries(lines) ==
    [i \in 1..Len(lines) |-> [kind |-> "text", score |-> TextScore(i), hasText |-> TRUE]]

\* One image entry per image file of the frames directory, in name order.
RECURSIVE ImageEntries(_, _)
ImageEntries(frames, slot) ==
    IF slot \notin FrameSlots THEN <<>>
    ELSE (IF frames[slot] = NoneStr THEN <<>>
          ELSE <<[kind |-> "image", score |-> ImageScore(slot), hasText |-> TRUE]>>)
         \o ImageEntries(frames, slot + 1)

\* VideoIndexer.create_multimodal_index(frames_dir, captions_path, video_id):
\* a new index object over the image files of the directory and the spans of
\* the caption file.
CreateMultimodalIndex(frames_dir, captions, video_id) ==
    [id |-> builds + 1, video |-> video_id, frames_dir |-> frames_dir,
     items |-> TextEntries(captions.lines) \o ImageEntries(frames_dir, 0)]

\* The steps of the Process Video handler that can raise, in order, and
\* "none" for a run that raises nowhere.
ProcessSteps == <<"init", "info", "frames", "index", "retriever", "none">>
StepNo(step) == CHOOSE n \in 1..Len(ProcessSteps) : ProcessSteps[n] = step

\* The "Process Video" handler of main(), the whole try block: frames and
\* captions are written to the data directory, the index is built over
\* them, and the session is written only after that, index, url and id
\* first, the retriever after its construction; an exception at any step is
\* caught and shown, leaving disk and session as written so far.
ProcessVideo(video_url, similarity_top_k, image_similarity_top_k, raisesAt, saved, api) ==
    LET vid == ExtractVideoId(video_url)
        step == IF vid.raised THEN "init" ELSE raisesAt
        extracting == StepNo(step) >= StepNo("frames")
        extracted == StepNo(step) > StepNo("frames")
        built == StepNo(step) > StepNo("index")
        frames == IF extracting THEN ExtractFrames(data_dir.frames, vid.video_id, saved)
                  ELSE data_dir.frames
        captions == ExtractCaptions(vid.video_id, NoneStr, api, Transcript(vid.video_id))
        file == [exists |-> captions.written, lines |-> captions.lines]
        index == CreateMultimodalIndex(frames, file, vid.video_id)
        made == VideoRetriever(index, similarity_top_k, image_similarity_top_k,
                               step = "retriever")
    IN  /\ saved = IF extracted THEN FrameCount(vid.video_id) ELSE 0
        /\ ~extracted => api = "data"
        /\ data_dir' = [frames |-> frames]
        /\ session' =
               IF ~built THEN session
               ELSE IF made.raised
                    THEN [session EXCEPT !.index = index,
                                         !.video_url = video_url,
                                         !.video_id = vid.video_id]
                    ELSE [video_url |-> video_url, index |-> index,
                          retriever |-> made.self, video_id |-> vid.video_id]
        /\ builds' = IF built THEN builds + 1 ELSE builds
        /\ lifecycle' = [kind |-> "process", raisedAt |-> step, before |-> session]
        /\ page' = [kind |-> "process",
                    ui |-> IF step = "none" THEN "success" ELSE "error",
                    exc |-> NoneStr]
        /\ call' = NoCall

\* A script run with "Process Video" clicked and a URL typed; the K values
\* are read off the sliders.
RunProcess ==
    /\ builds < MaxBuilds
    /\ \E video_url \in Urls,
          raisesAt \in {"info", "frames", "index", "retriever", "none"},
          saved \in 0..MaxFrames, api \in ApiOutcomes :
           /\ video_url.form # "empty"
           /\ ProcessVideo(video_url, sliders.similarity_top_k,
                           sliders.image_similarity_top_k, raisesAt, saved, api)
    /\ UNCHANGED <<retr, ctor, remembered, capt, sliders, sessions, threads>>

\* utils.helper.cleanup_data_directories: the data directory is emptied; a
\* call that raises has emptied it or not.
CleanupDataDirectories(raises, emptied) ==
    IF raises /\ ~emptied THEN data_dir ELSE EmptyDir

\* The "Cleanup All Data" handler of main(): the four session keys are reset
\* after cleanup_data_directories() returns; when that raises, the exception
\* is caught and shown and the session keeps its values.
CleanupAllData(raises, emptied) ==
    /\ data_dir' = CleanupDataDirectories(raises, emptied)
    /\ session' = IF raises THEN session ELSE NoSession
    /\ lifecycle' = [kind |-> "cleanup",
                     raisedAt |-> IF raises THEN "cleanup" ELSE "none",
                     before |-> session]
    /\ page' = [kind |-> "cleanup", ui |-> IF raises THEN "error" ELSE "success",
                exc |-> NoneStr]
    /\ call' = NoCall
    /\ UNCHANGED builds

\* A script run with "Cleanup All Data" clicked.
RunCleanup ==
    /\ \E raises \in BOOLEAN, emptied \in BOOLEAN :
           /\ ~raises => emptied
           /\ CleanupAllData(raises, emptied)
    /\ UNCHANGED <<retr, ctor, remembered, capt, sliders, sessions, threads>>

\* The "Submit Query" handler of main(): an empty query gets a warning; any
\* other goes to session.retriever.retrieve, a missing retriever or a raising
\* retrieve or answer synthesis being caught and shown as an error.
SubmitQuery(query, fails, inferenceFails) ==
    IF Len(query) = 0
    THEN /\ page' = [kind |-> "query", ui |-> "warning", exc |-> NoneStr]
         /\ call' = NoCall
    ELSE IF session.retriever = None
         THEN /\ page' = [kind |-> "query", ui |-> "error", exc |-> "AttributeError"]
              /\ call' = NoCall
         ELSE LET got == retrieve(session.retriever, query, fails)
              IN  /\ call' = got
                  /\ page' = [kind |-> "query",
                              ui |-> IF got.outcome = "raised" \/ inferenceFails
                                     THEN "error" ELSE "answer",
                              exc |-> IF got.outcome = "raised" THEN got.exc
                                      ELSE IF inferenceFails THEN "InferenceError"
                                      ELSE NoneStr]

\* A script run with "Submit Query" clicked; the query section exists only
\* while the session holds an index.
RunQuery ==
    /\ session.index # None
    /\ \E query \in Queries, fails \in BOOLEAN, inferenceFails \in BOOLEAN :
           SubmitQuery(query, fails, inferenceFails)
    /\ UNCHANGED <<session, lifecycle, builds, data_dir, sliders>>
    /\ UNCHANGED <<retr, ctor, remembered, capt, sessions, threads>>

\* A script run after a top-K slider was moved: no button is clicked, so no
\* handler runs and nothing but the slider's value changes.
MoveSlider ==
    /\ \E similarity_top_k \in SliderValues, image_similarity_top_k \in SliderValues :
           /\ sliders' = [similarity_top_k |-> similarity_top_k,
                          image_similarity_top_k |-> image_similarity_top_k]
           /\ sliders' # sliders
    /\ page' = NoPage
    /\ call' = NoCall
    /\ UNCHANGED <<session, lifecycle, builds, data_dir>>
    /\ UNCHANGED <<retr, ctor, remembered, capt, sessions, threads>>

Next == RunProcess \/ RunCleanup \/ RunQuery \/ MoveSlider

Spec == Init /\ [][Next]_vars

\* ------------------------------------------- several sessions, one disk
\* The handlers of main() step by step, for several browser sessions whose
\* script threads interleave; no handler takes a lock or waits for another.
SingleSessionVars == <<retr, ctor, call, remembered, session, lifecycle, page,
                       builds, capt, sliders>>

\* The positions of a script run at which a retrieve call, or the display of
\* the image paths it returned, is under way.
InFlight == {"retrieve", "display"}
QueriesInFlight == {t \in SessionIds : threads[t].pc \in InFlight}

\* "Process Video" clicked: the processor is made and the video info
\* fetched; frame extraction comes next.
BeginProcess ==
    /\ \E s \in SessionIds, video \in Videos :
           /\ threads[s].pc = "idle"
           /\ threads' = [threads EXCEPT ![s] = [pc |-> "frames", video |-> video,
                                                 over |-> {}]]
    /\ UNCHANGED <<sessions, data_dir>>
    /\ UNCHANGED SingleSessionVars

\* video_processor.extract_frames(stream_url): the frames are written into
\* the data directory, over the queries in flight at that moment; a call
\* that raises ends the run.
ExtractFramesStep ==
    /\ \E s \in SessionIds, raises \in BOOLEAN :
           /\ threads[s].pc = "frames"
           /\ IF raises
              THEN /\ threads' = [threads EXCEPT ![s] = Idle]
                   /\ UNCHANGED data_dir
              ELSE /\ data_dir' = [frames |-> ExtractFrames(data_dir.frames,
                                                            threads[s].video,
                                                            FrameCount(threads[s].video))]
                   /\ threads' = [threads EXCEPT ![s].pc = "index",
                                                 ![s].over = QueriesInFlight]
    /\ UNCHANGED sessions
    /\ UNCHANGED SingleSessionVars

\* The index is built over the directory as it is now and, with its
\* retriever, put into the session state; a build that raises ends the run.
BuildIndexStep ==
    /\ \E s \in SessionIds, raises \in BOOLEAN :
           /\ threads[s].pc = "index"
           /\ sessions' = IF raises THEN sessions
                          ELSE [sessions EXCEPT ![s].index =
                                    [video |-> threads[s].video,
                                     frames_dir |-> data_dir.frames]]
           /\ threads' = [threads EXCEPT ![s] = Idle]
    /\ UNCHANGED data_dir
    /\ UNCHANGED SingleSessionVars

\* "Cleanup All Data" clicked: cleanup_data_directories() runs, over the
\* queries in flight at that moment.
CleanupStep ==
    /\ \E s \in SessionIds, raises \in BOOLEAN, emptied \in BOOLEAN :
           /\ threads[s].pc = "idle"
           /\ ~raises => emptied
           /\ data_dir' = CleanupDataDirectories(raises, emptied)
           /\ threads' = [threads EXCEPT ![s] =
                              IF raises /\ ~emptied THEN Idle
                              ELSE [pc |-> IF raises THEN "failed" ELSE "reset",
                                    video |-> NoneStr, over |-> QueriesInFlight]]
    /\ UNCHANGED sessions
    /\ UNCHANGED SingleSessionVars

\* The session keys are set to None after a cleanup that returned; one that
\* raised is reported and the keys stay.
ResetStep ==
    /\ \E s \in SessionIds :
           /\ threads[s].pc \in {"reset", "failed"}
           /\ sessions' = IF threads[s].pc = "reset"
                          THEN [sessions EXCEPT ![s].index = None]
                          ELSE sessions
           /\ threads' = [threads EXCEPT ![s] = Idle]
    /\ UNCHANGED data_dir
    /\ UNCHANGED SingleSessionVars

\* "Submit Query" clicked in a session that holds an index:
\* session.retriever.retrieve(query) is called.
BeginRetrieve ==
    /\ \E s \in SessionIds :
           /\ threads[s].pc = "idle"
           /\ sessions[s].index # None
           /\ threads' = [threads EXCEPT ![s] = [pc |-> "retrieve",
                                                 video |-> sessions[s].index.video,
                                                 over |-> {}]]
    /\ UNCHANGED <<sessions, data_dir>>
    /\ UNCHANGED SingleSessionVars

\* retrieve returns and the image paths it gave are handed to st.image, or
\* it raises and the run ends.
RetrieveReturns ==
    /\ \E s \in SessionIds, fails \in BOOLEAN :
           /\ threads[s].pc = "retrieve"
           /\ threads' = [threads EXCEPT ![s] =
                              IF fails THEN Idle ELSE [@ EXCEPT !.pc = "display"]]
    /\ UNCHANGED <<sessions, data_dir>>
    /\ UNCHANGED SingleSessionVars

\* The last image file was read and shown; the run ends.
DisplayDone ==
    /\ \E s \in SessionIds :
           /\ threads[s].pc = "display"
           /\ threads' = [threads EXCEPT ![s] = Idle]
    /\ UNCHANGED <<sessions, data_dir>>
    /\ UNCHANGED SingleSessionVars

NextSessions ==
    \/ BeginProcess \/ ExtractFramesStep \/ BuildIndexStep
    \/ CleanupStep \/ ResetStep
    \/ BeginRetrieve \/ RetrieveReturns \/ DisplayDone

SpecSessions == Init /\ [][NextSessions]_vars

\* ---------------------------------------------- claims on the retriever
InSeq(x, seq) == \E i \in 1..Len(seq) : seq[i] = x
IsBlank(query) == \A i \in 1..Len(query) : query[i] \in Whitespace
Returned == call.made /\ call.outcome = "returned"
CountKind(nodes, kind) == Cardinality({i \in 1..Len(nodes) : nodes[i].kind = kind})
TextK == retr.retriever_engine.similarity_top_k
ImageK == retr.retriever_engine.image_similarity_top_k

\* C1: whenever retrieve returns normally, every image item the store
\* returned has its file path in the images, every text item its text in the
\* texts, no returned item is in both lists, and none is dropped: the two
\* lists together are as long as the store's answer.
C1_PartitionCorrect ==
    Returned =>
        /\ \A i \in 1..Len(call.nodes) :
               /\ call.nodes[i].kind = "image"
                      => InSeq(FilePath(call.nodes[i]), call.images)
               /\ call.nodes[i].kind = "text"
                      => InSeq(NodeText(call.nodes[i]), call.texts)
               /\ ~(/\ InSeq(FilePath(call.nodes[i]), call.images)
                    /\ InSeq(NodeText(call.nodes[i]), call.texts))
        /\ Len(call.images) + Len(call.texts) = Len(call.nodes)

\* A normal return over an answer of three items of the three kinds.
C1_Witness ==
    /\ Returned
    /\ Len(call.nodes) = 3
    /\ CountKind(call.nodes, "image") = 1
    /\ CountKind(call.nodes, "text") = 1
    /\ CountKind(call.nodes, "other") = 1

ImageNodes(nodes) == SelectSeq(nodes, IsImageNode)
OtherNodes(nodes) == SelectSeq(nodes, LAMBDA nd : ~IsImageNode(nd))
NonIncreasing(nodes) ==
    \A i, j \in 1..Len(nodes) : i < j => nodes[i].score >= nodes[j].score
\* The score of the returned item a result element stands for.
ScoreOf(element) ==
    (CHOOSE nd \in {call.nodes[i] : i \in 1..Len(call.nodes)} :
        element \in {FilePath(nd), NodeText(nd)}).score

\* C3: the images and the texts are each the store's answer restricted to
\* that partition, in the answer's order; so when the answer is in
\* non-increasing score order, so are the scores of each list.
C3_RankOrderPreserved ==
    Returned =>
        /\ Len(call.images) = Len(ImageNodes(call.nodes))
        /\ \A i \in 1..Len(call.images) :
               call.images[i] = FilePath(ImageNodes(call.nodes)[i])
        /\ Len(call.texts) = Len(OtherNodes(call.nodes))
        /\ \A i \in 1..Len(call.texts) :
               call.texts[i] = NodeText(OtherNodes(call.nodes)[i])
        /\ NonIncreasing(call.nodes) =>
               /\ \A i, j \in 1..Len(call.images) :
                      i < j => ScoreOf(call.images[i]) >= ScoreOf(call.images[j])
               /\ \A i, j \in 1..Len(call.texts) :
                      i < j => ScoreOf(call.texts[i]) >= ScoreOf(call.texts[j])

\* An answer with a text between two images of different scores, the store's
\* insertion order being the opposite of the rank order.
C3_Witness ==
    /\ Returned
    /\ Len(call.nodes) = 3
    /\ call.nodes[1].kind = "image" /\ call.nodes[2].kind = "text"
    /\ call.nodes[3].kind = "image"
    /\ call.nodes[1].score > call.nodes[3].score
    /\ call.nodes[1].pos > call.nodes[3].pos
    /\ Len(call.images) = 2

\* C5: when an item of the store's answer is neither an image nor a text
\* item, retrieve fails with CorruptIndexError; the item is not placed into
\* a list.  (Stated for a retriever with valid K values, a query that is not
\* blank and unknown entries whose text can be read, so that nothing else
\* fails the call.)
C5_CorruptIndexDetected ==
    (/\ call.made
     /\ TextK >= 1 /\ ImageK >= 1 /\ ~IsBlank(call.query)
     /\ ~call.engineRaised
     /\ CountKind(call.nodes, "other") > 0
     /\ \A i \in 1..Len(call.nodes) : call.nodes[i].hasText)
        => /\ call.outcome = "raised"
           /\ call.exc = "CorruptIndexError"

\* C8: constructing the retriever with a K below 1 fails with
\* ConfigurationError, so no retriever with such a K exists or serves a call.
C8_ConstructionValidated ==
    /\ (ctor.made /\ (ctor.text_k < 1 \/ ctor.image_k < 1))
           => ctor.outcome = "raised" /\ ctor.exc = "ConfigurationError"
    /\ retr # None => TextK >= 1 /\ ImageK >= 1

\* C9: when the similarity search raises, retrieve raises
\* RetrievalBackendError (carrying the cause) and returns no result.  (Stated
\* for a retriever with valid K values and a query that is not blank.)
C9_BackendFailureWrapped ==
    (/\ call.made
     /\ TextK >= 1 /\ ImageK >= 1 /\ ~IsBlank(call.query)
     /\ call.engineRaised)
        => /\ call.outcome = "raised"
           /\ call.exc = "RetrievalBackendError"

C4_EmptyQueryRejected ==
    (call.made /\ IsBlank(call.query))
        => /\ call.outcome = "raised"
           /\ call.exc = "EmptyQueryError"
           /\ ~call.searched

\* The session is Uninitialized (spec 4.3): no store was built yet, cleanup
\* discarded it, or a new video was submitted and no store was built for it.
SessionUninitialized ==
    \/ lifecycle.kind = "none"
    \/ lifecycle.kind = "cleanup" /\ lifecycle.raisedAt = "none"
    \/ lifecycle.kind = "process" /\ lifecycle.raisedAt \in {"info", "frames", "index"}

\* C6: while the session is Uninitialized, a retrieve attempt fails with
\* NotReadyError and no similarity search runs.
C6_NotReadyGuard ==
    (page.kind = "query" /\ page.ui # "warning" /\ SessionUninitialized)
        => /\ page.exc = "NotReadyError"
           /\ ~call.made

SessionReady(sess) == sess.index # None /\ sess.retriever # None

\* C7: the session is Ready only once a store has been built, and after a
\* cleanup invocation or the submission of a video URL, failed part-way or
\* not, it does not stay Ready with the index and retriever it held before.
C7_SessionStateMachine ==
    /\ SessionReady(session) => builds >= 1
    /\ (/\ lifecycle.kind \in {"cleanup", "process"}
        /\ lifecycle.raisedAt # "init"
        /\ SessionReady(lifecycle.before))
           => ~(/\ session.index = lifecycle.before.index
                /\ session.retriever = lifecycle.before.retriever)

\* ------------------------------------------------ claims on the captions
\* C12: however the transcript fetch ends, with or without a target
\* language, extract_captions does not raise, has written the caption file
\* when it returns (empty when the fetch gave no data), and returns its path.
C12_TranscriptFailureIsEmpty ==
    capt.made =>
        /\ ~capt.raised
        /\ capt.written
        /\ capt.returned = capt.file
        /\ (\/ capt.api # "data"
            \/ \A i \in 1..Len(capt.data) :
                   \/ IsBlank(capt.data[i].text)
                   \/ capt.data[i].start.given = "bad"
                   \/ capt.data[i].duration.given = "bad")
              => capt.lines = <<>>

\* A fetch that ended in an exception other than the two transcript ones,
\* with no target language.
C12_Witness ==
    /\ capt.made
    /\ capt.api = "Exception"
    /\ capt.file[3] = NoneStr
    /\ capt.written /\ capt.lines = <<>>

\* C13: every caption span written has start >= 0, end >= 0 and
\* start <= end, whatever "start" and "duration" the entries carry.
C13_CaptionSpanInvariant ==
    capt.made =>
        \A i \in 1..Len(capt.lines) :
            /\ capt.lines[i].start >= 0
            /\ capt.lines[i].end >= 0
            /\ capt.lines[i].start <= capt.lines[i].end

\* ------------------------------------------ claims on the data directory
\* C11: the frames directory the current index was built from holds only
\* frames cut from the current video, whatever runs came before.
C11_OnlyCurrentVideoFrames ==
    session.index # None =>
        \A slot \in FrameSlots :
            session.index.frames_dir[slot] \in {NoneStr, session.index.video}

\* C15: the session holds an index exactly when it holds a retriever, the
\* retriever is the one built over that index, and video_id and video_url
\* name the video the index was built from.
C15_IndexRetrieverConsistent ==
    /\ session.index # None <=> session.retriever # None
    /\ session.index # None /\ session.retriever # None =>
           /\ session.retriever.index = session.index
           /\ session.video_id = session.index.video
           /\ session.video_url # None
           /\ session.video_url.video = session.index.video

\* The K values a retriever object carries.
KOf(self) == <<self.retriever_engine.similarity_top_k,
               self.retriever_engine.image_similarity_top_k>>
SliderK == <<sliders.similarity_top_k, sliders.image_similarity_top_k>>

\* C16: a retrieve call on the session retriever searches with the K values
\* the retriever carries; those are the slider values of the Process Video
\* run that constructed it, and neither a query nor a later move of a
\* slider changes the session retriever.
C16_KSetOnce ==
    /\ [](call.made /\ ~call.engineRaised /\ session.retriever # None =>
              call.nodes = Search(session.retriever.index.items,
                                  KOf(session.retriever)[1],
                                  KOf(session.retriever)[2]))
    /\ [][/\ session'.retriever # session.retriever /\ session'.retriever # None =>
                 /\ lifecycle'.kind = "process" /\ lifecycle'.raisedAt = "none"
                 /\ KOf(session'.retriever) = SliderK
          /\ sliders' # sliders \/ call'.made =>
                 session'.retriever = session.retriever]_vars

\* A query answered by a retriever whose K values are no longer the sliders'.
C16_Witness ==
    /\ call.made /\ call.outcome = "returned"
    /\ session.retriever # None
    /\ KOf(session.retriever) # SliderK
    /\ call.nodes # Search(session.retriever.index.items, SliderK[1], SliderK[2])

\* --------------------------------------------- claims on several sessions
\* C14: frame extraction into the data directory and cleanup of the data
\* directories never begin while a retrieve call, or the display of the
\* image paths it returned, is in flight in any session.
C14_NoRebuildUnderQuery ==
    \A s \in SessionIds : threads[s].over = {}

====
